---- MODULE Spec2Model ----
(***************************************************************************)
(* Model of the ROI.01 odds client and arbitrage analyzer.                 *)
(*                                                                         *)
(*   Spec      BaseAPIClient._make_request (retry loop) together with the  *)
(*             OddsAPIClient operations built on it (get_sports, get_odds, *)
(*             get_event_odds, _parse_event).                              *)
(*   SpecArb   ArbitrageAnalyzer.find_arbitrage over a stream of events.   *)
(*   SpecConv  the odds conversion helpers of models/bet.py.               *)
(*   SpecLive  _make_request under weak fairness of its loop step, for     *)
(*             the calls of get_sports.                                    *)
(*   SpecMain  one run of main(): the connection test and the loop over    *)
(*             the configured sports, under weak fairness.                 *)
(*                                                                         *)
(* Prices are exact rationals <<numerator, denominator>> in lowest terms;  *)
(* the rounding of IEEE doubles is not part of the model.                  *)
(***************************************************************************)
EXTENDS Integers, Sequences, FiniteSets, TLC

(***************************************************************************)
(* Exact rational arithmetic (Python float arithmetic without rounding).   *)
(***************************************************************************)
Abs(x) == IF x < 0 THEN -x ELSE x

RECURSIVE GCD(_, _)
GCD(a, b) == IF b = 0 THEN a ELSE GCD(b, a % b)

Rat(n, d) ==
    LET g == GCD(Abs(n), Abs(d))
        s == IF d < 0 THEN -1 ELSE 1
    IN  <<(s * n) \div g, (s * d) \div g>>

RInt(n) == <<n, 1>>
RAdd(x, y) == Rat(x[1] * y[2] + y[1] * x[2], x[2] * y[2])
RSub(x, y) == Rat(x[1] * y[2] - y[1] * x[2], x[2] * y[2])
RMul(x, y) == Rat(x[1] * y[1], x[2] * y[2])
RDiv(x, y) == Rat(x[1] * y[2], x[2] * y[1])
RLt(x, y) == x[1] * y[2] < y[1] * x[2]
RLe(x, y) == x[1] * y[2] <= y[1] * x[2]
RAbs(x) == <<Abs(x[1]), x[2]>>
RMin(x, y) == IF RLt(y, x) THEN y ELSE x

RECURSIVE Pow2(_)
Pow2(n) == IF n = 0 THEN 1 ELSE 2 * Pow2(n - 1)

(***************************************************************************)
(* models/bet.py: conversion helpers.                                      *)
(***************************************************************************)
convert_american_to_decimal(american_odds) ==
    IF RLt(RInt(0), american_odds)
    THEN RAdd(RDiv(american_odds, RInt(100)), RInt(1))
    ELSE RAdd(RDiv(RInt(100), RAbs(american_odds)), RInt(1))

convert_decimal_to_american_unsigned(decimal_odds) ==
    IF RLe(RInt(2), decimal_odds)
    THEN RMul(RSub(decimal_odds, RInt(1)), RInt(100))
    ELSE RDiv(RInt(100), RSub(decimal_odds, RInt(1)))

convert_decimal_to_american(decimal_odds) ==
    IF RLe(RInt(2), decimal_odds)
    THEN RMul(RSub(decimal_odds, RInt(1)), RInt(100))
    ELSE RDiv(RInt(-100), RSub(decimal_odds, RInt(1)))

calculate_implied_probability(decimal_odds) == RDiv(RInt(1), decimal_odds)

(***************************************************************************)
(* Bounds of the model and constants of the program.                       *)
(***************************************************************************)
MaxRetryAttempts == 3        \* retry_attempts ranges over 0..MaxRetryAttempts
MaxPayloadEvents == 2        \* events in one get_odds response
DefaultRetryAttempts == 3    \* base_client.py: retry_attempts: int = 3
RateLimitWait == 60          \* base_client.py: time.sleep(60)

(***************************************************************************)
(* The upstream: what one HTTP attempt can answer.                         *)
(***************************************************************************)
ErrorStatuses == {"404", "500"}
OddsFormats == {"decimal", "american"}
Operations == {"get_sports", "get_odds", "get_event_odds"}

\* The bookmakers' prices, in decimal odds; the wire carries them in the
\* format the request asked for (oddsFormat).
WirePrice(fmt, dec) ==
    IF fmt = "american" THEN convert_decimal_to_american(dec) ELSE dec

WireOutcome(fmt, name, dec) ==
    [name |-> name, price |-> WirePrice(fmt, dec)]
WireOutcomePoint(fmt, name, dec, point) ==
    [name |-> name, price |-> WirePrice(fmt, dec), point |-> point]

WireEventA(fmt) ==
    [id |-> "evA", sport_key |-> "nfl", commence_time |-> <<"iso", 10>>,
     home_team |-> "Home", away_team |-> "Away",
     bookmakers |-> <<
        [key |-> "dk", last_update |-> <<"iso", 7>>,
         markets |-> << [key |-> "h2h",
                         outcomes |-> << WireOutcome(fmt, "Home", <<21, 10>>),
                                         WireOutcome(fmt, "Away", <<9, 5>>) >>] >>],
        [key |-> "fd", last_update |-> <<"iso", 8>>,
         markets |-> << [key |-> "h2h",
                         outcomes |-> << WireOutcome(fmt, "Away", <<51, 25>>) >>] >>] >>]

WireEventB(fmt) ==
    [id |-> "evB", sport_key |-> "nba", commence_time |-> <<"iso", 11>>,
     home_team |-> "Home", away_team |-> "Away",
     bookmakers |-> <<
        [key |-> "dk", last_update |-> <<"iso", 9>>,
         markets |-> << [key |-> "totals",
                         outcomes |-> << WireOutcomePoint(fmt, "Over", <<5, 2>>, 45),
                                         WireOutcomePoint(fmt, "Under", <<3, 2>>, 45) >>] >>] >>]

\* An event no bookmaker quotes ('bookmakers' absent: data.get gives []).
WireEventBare ==
    [id |-> "evC", sport_key |-> "nfl", commence_time |-> <<"iso", 12>>,
     home_team |-> "Home", away_team |-> "Away"]

\* Payloads with a required field missing.
WireEventNoId ==
    [sport_key |-> "nfl", commence_time |-> <<"iso", 12>>,
     home_team |-> "Home", away_team |-> "Away", bookmakers |-> << >>]

WireEventNoPrice ==
    [id |-> "evD", sport_key |-> "nfl", commence_time |-> <<"iso", 12>>,
     home_team |-> "Home", away_team |-> "Away",
     bookmakers |-> <<
        [key |-> "dk", last_update |-> <<"iso", 9>>,
         markets |-> << [key |-> "h2h",
                         outcomes |-> << [name |-> "Home"] >>] >>] >>]

WireEvents(fmt) ==
    {WireEventA(fmt), WireEventB(fmt), WireEventBare, WireEventNoId, WireEventNoPrice}

SeqsUpTo(S, n) == UNION {[1..k -> S] : k \in 0..n}

\* response.json(): a JSON array or a JSON object.
Payloads(operation, fmt) ==
    CASE operation = "get_sports" ->
            {[shape |-> "array", items |-> <<[key |-> "nfl"], [key |-> "nba"]>>]}
      [] operation = "get_odds" ->
            {[shape |-> "array", items |-> s] :
                s \in SeqsUpTo(WireEvents(fmt), MaxPayloadEvents)}
      [] operation = "get_event_odds" ->
            {[shape |-> "object", items |-> <<e>>] : e \in WireEvents(fmt)}
      [] OTHER -> {}

(***************************************************************************)
(* api/odds_api.py: _parse_event.                                          *)
(***************************************************************************)
Has(d, f) == f \in DOMAIN d
Get(d, f, default) == IF Has(d, f) THEN d[f] ELSE default

\* An Optional value is a sequence of length 0 (None) or 1.
None == << >>
Some(v) == <<v>>

\* datetime.fromisoformat(s.replace('Z', '+00:00'))
ParseISO(w) == w[2]

\* An Odds entry with the price taken from the market's first outcome.
NewOddsFirstPrice(bookmaker_data, market, outcome) ==
    [bookmaker |-> bookmaker_data.key,
     market |-> market.key,
     outcome |-> outcome.name,
     price |-> market.outcomes[1].price,
     point |-> IF Has(outcome, "point") THEN Some(outcome.point) ELSE None,
     last_update |-> ParseISO(bookmaker_data.last_update)]

NewOdds(bookmaker_data, market, outcome) ==
    [bookmaker |-> bookmaker_data.key,
     market |-> market.key,
     outcome |-> outcome.name,
     price |-> outcome.price,
     point |-> IF Has(outcome, "point") THEN Some(outcome.point) ELSE None,
     last_update |-> ParseISO(bookmaker_data.last_update)]

OutcomeOK(bookmaker_data, outcome) ==
    Has(outcome, "name") /\ Has(outcome, "price") /\ Has(bookmaker_data, "last_update")

MarketOK(bookmaker_data, market) ==
    /\ Has(market, "key")
    /\ \A i \in DOMAIN Get(market, "outcomes", << >>) :
          OutcomeOK(bookmaker_data, market.outcomes[i])

BookmakerOK(bookmaker_data) ==
    /\ Has(bookmaker_data, "key")
    /\ \A i \in DOMAIN Get(bookmaker_data, "markets", << >>) :
          MarketOK(bookmaker_data, bookmaker_data.markets[i])

\* No KeyError is raised while parsing data.
EventOK(data) ==
    /\ \A i \in DOMAIN Get(data, "bookmakers", << >>) : BookmakerOK(data.bookmakers[i])
    /\ \A f \in {"id", "sport_key", "commence_time", "home_team", "away_team"} :
          Has(data, f)

RECURSIVE ParseOutcomes(_, _, _)
ParseOutcomes(bookmaker_data, market, i) ==
    IF i > Len(Get(market, "outcomes", << >>)) THEN << >>
    ELSE <<NewOdds(bookmaker_data, market, market.outcomes[i])>>
            \o ParseOutcomes(bookmaker_data, market, i + 1)

RECURSIVE ParseMarkets(_, _)
ParseMarkets(bookmaker_data, i) ==
    IF i > Len(Get(bookmaker_data, "markets", << >>)) THEN << >>
    ELSE ParseOutcomes(bookmaker_data, bookmaker_data.markets[i], 1)
            \o ParseMarkets(bookmaker_data, i + 1)

RECURSIVE ParseBookmakers(_, _)
ParseBookmakers(data, i) ==
    IF i > Len(Get(data, "bookmakers", << >>)) THEN << >>
    ELSE ParseMarkets(data.bookmakers[i], 1) \o ParseBookmakers(data, i + 1)

\* Defined where EventOK(data).
_parse_event(data) ==
    [id |-> data.id,
     sport |-> data.sport_key,
     commence_time |-> ParseISO(data.commence_time),
     home_team |-> data.home_team,
     away_team |-> data.away_team,
     bookmakers |-> [i \in DOMAIN Get(data, "bookmakers", << >>) |-> data.bookmakers[i].key],
     odds_data |-> ParseBookmakers(data, 1)]

(***************************************************************************)
(* The client: one call at a time (the core is single-threaded).           *)
(***************************************************************************)
VARIABLES
    retry_attempts,  \* self.retry_attempts
    operation,       \* the OddsAPIClient method being executed
    odds_format,     \* its odds_format argument
    pc,              \* "idle" | "request" | "finish" | "done"
    attempt,         \* the loop variable of _make_request
    response,        \* the last HTTP response session.request returned
    log,             \* the HTTP attempts and sleeps of the current call, in order
    mr_result,       \* how _make_request ended: returned payload or raised exception
    result           \* how the operation ended

clientVars == <<retry_attempts, operation, odds_format, pc, attempt, response, log,
                mr_result, result>>

(***************************************************************************)
(* The analyzer: one find_arbitrage call at a time.  The events of the     *)
(* list are taken one by one, as the for loop takes them.                  *)
(***************************************************************************)
VARIABLES
    min_profit_percentage,  \* self.min_profit_percentage
    max_stake,              \* self.max_stake
    arb_pc,                 \* "idle" | "loop" | "returned"
    event,                  \* the loop variable of find_arbitrage
    opportunities           \* the list find_arbitrage builds and returns

arbVars == <<min_profit_percentage, max_stake, arb_pc, event, opportunities>>

(***************************************************************************)
(* A calculation with the conversion helpers of models/bet.py.             *)
(***************************************************************************)
VARIABLES
    odds_input,    \* the value the calculation started from
    input_format,  \* "american" | "decimal": the notation of odds_input
    odds_value,    \* the value after the conversions made so far
    conversions    \* the conversions made so far, in order

convVars == <<odds_input, input_format, odds_value, conversions>>

(***************************************************************************)
(* main.py: one run of main(), from the connection test to the summary.    *)
(***************************************************************************)
VARIABLES
    sports,             \* config['sports']
    main_pc,            \* "idle" | "connect" | "loop" | "summary" | "fatal"
    sport_index,        \* the number of sports the for loop has taken
    attempted,          \* the sports the loop body has run for, with how each ended
    all_opportunities   \* the list main collects over the sports

mainVars == <<sports, main_pc, sport_index, attempted, all_opportunities>>

vars == <<clientVars, arbVars, convVars, mainVars>>

LogRequest(n, status) == [type |-> "request", attempt |-> n, status |-> status, seconds |-> 0]
LogSleep(seconds) == [type |-> "sleep", attempt |-> -1, status |-> "", seconds |-> seconds]

NoPayload == [shape |-> "none", items |-> << >>]
NoResponse == [status_code |-> "", json |-> NoPayload]
NoException == [type |-> "", status |-> ""]
Exc(type, status) == [type |-> type, status |-> status]

Pending == [kind |-> "pending", payload |-> NoPayload, value |-> << >>,
            isNone |-> FALSE, exc |-> NoException]
Returned(payload) == [kind |-> "return", payload |-> payload, value |-> << >>,
                      isNone |-> FALSE, exc |-> NoException]
Raised(exc) == [kind |-> "raise", payload |-> NoPayload, value |-> << >>,
                isNone |-> FALSE, exc |-> exc]
ReturnedValue(value) == [kind |-> "return", payload |-> NoPayload, value |-> value,
                         isNone |-> FALSE, exc |-> NoException]
ReturnedNone == [kind |-> "return", payload |-> NoPayload, value |-> << >>,
                 isNone |-> TRUE, exc |-> NoException]

ClientInit ==
    /\ retry_attempts \in 0..MaxRetryAttempts
    /\ operation = "none"
    /\ odds_format = "decimal"
    /\ pc = "idle"
    /\ attempt = 0
    /\ response = NoResponse
    /\ log = << >>
    /\ mr_result = Pending
    /\ result = Pending

\* A caller invokes get_sports / get_odds / get_event_odds, which enters
\* _make_request: the for loop starts at attempt 0.
Call(op, fmt) ==
    /\ pc \in {"idle", "done"}
    /\ operation' = op
    /\ odds_format' = fmt
    /\ pc' = "request"
    /\ attempt' = 0
    /\ response' = NoResponse
    /\ log' = << >>
    /\ mr_result' = Pending
    /\ result' = Pending
    /\ UNCHANGED retry_attempts
    /\ UNCHANGED <<arbVars, convVars, mainVars>>

InLoop == pc = "request" /\ attempt < retry_attempts

\* 'response' after session.request: assigned when a response arrived, left
\* as it was when session.request raised.
Received(status) ==
    IF status \in ErrorStatuses
    THEN [status_code |-> status, json |-> NoPayload]
    ELSE response

\* A 2xx response: raise_for_status passes, response.json() is returned.
RespSuccess(payload) ==
    /\ InLoop
    /\ response' = [status_code |-> "2xx", json |-> payload]
    /\ log' = Append(log, LogRequest(attempt, "2xx"))
    /\ mr_result' = Returned(response'.json)
    /\ pc' = "finish"
    /\ UNCHANGED <<retry_attempts, operation, odds_format, attempt, result>>
    /\ UNCHANGED <<arbVars, convVars, mainVars>>

\* The 429 branch as a retry that leaves the loop variable alone.
Resp429NoAdvance ==
    /\ InLoop
    /\ response' = [status_code |-> "429", json |-> NoPayload]
    /\ log' = log \o <<LogRequest(attempt, "429"), LogSleep(RateLimitWait)>>
    /\ UNCHANGED <<retry_attempts, operation, odds_format, pc, attempt, mr_result, result>>
    /\ UNCHANGED <<arbVars, convVars, mainVars>>

\* The same, with the backoff delay in place of the fixed wait.
Resp429Backoff ==
    /\ InLoop
    /\ response' = [status_code |-> "429", json |-> NoPayload]
    /\ log' = log \o <<LogRequest(attempt, "429"), LogSleep(Pow2(attempt))>>
    /\ attempt' = attempt + 1
    /\ UNCHANGED <<retry_attempts, operation, odds_format, pc, mr_result, result>>
    /\ UNCHANGED <<arbVars, convVars, mainVars>>

\* status_code == 429: sleep 60, continue (the next iteration of the for loop).
Resp429 ==
    /\ InLoop
    /\ response' = [status_code |-> "429", json |-> NoPayload]
    /\ log' = log \o <<LogRequest(attempt, "429"), LogSleep(RateLimitWait)>>
    /\ attempt' = attempt + 1
    /\ UNCHANGED <<retry_attempts, operation, odds_format, pc, mr_result, result>>
    /\ UNCHANGED <<arbVars, convVars, mainVars>>

\* The except clauses with the backoff starting at 2: sleep 2 ** (attempt + 1).
ExceptBackoffFromTwo(status, exc) ==
    /\ InLoop
    /\ response' = Received(status)
    /\ IF attempt = retry_attempts - 1
       THEN /\ log' = Append(log, LogRequest(attempt, status))
            /\ mr_result' = Raised(exc)
            /\ pc' = "finish"
            /\ UNCHANGED attempt
       ELSE /\ log' = log \o <<LogRequest(attempt, status), LogSleep(Pow2(attempt + 1))>>
            /\ attempt' = attempt + 1
            /\ UNCHANGED <<pc, mr_result>>
    /\ UNCHANGED <<retry_attempts, operation, odds_format, result>>
    /\ UNCHANGED <<arbVars, convVars, mainVars>>

\* The except clauses with the last-attempt test off by one: the exception is
\* never re-raised, the loop runs out instead.
ExceptOffByOne(status, exc) ==
    /\ InLoop
    /\ response' = Received(status)
    /\ log' = log \o <<LogRequest(attempt, status), LogSleep(Pow2(attempt))>>
    /\ attempt' = attempt + 1
    /\ UNCHANGED <<retry_attempts, operation, odds_format, pc, mr_result, result>>
    /\ UNCHANGED <<arbVars, convVars, mainVars>>

\* An except clause that re-raises at once, whatever the attempt.
ExceptNoRetry(status, exc) ==
    /\ InLoop
    /\ response' = Received(status)
    /\ log' = Append(log, LogRequest(attempt, status))
    /\ mr_result' = Raised(exc)
    /\ pc' = "finish"
    /\ UNCHANGED <<retry_attempts, operation, odds_format, attempt, result>>
    /\ UNCHANGED <<arbVars, convVars, mainVars>>

\* The body shared by 'except Timeout' and 'except RequestException': re-raise
\* on the last attempt, otherwise sleep 2 ** attempt and go round again.
Except(status, exc) ==
    /\ InLoop
    /\ response' = Received(status)
    /\ IF attempt = retry_attempts - 1
       THEN /\ log' = Append(log, LogRequest(attempt, status))
            /\ mr_result' = Raised(exc)
            /\ pc' = "finish"
            /\ UNCHANGED attempt
       ELSE /\ log' = log \o <<LogRequest(attempt, status), LogSleep(Pow2(attempt))>>
            /\ attempt' = attempt + 1
            /\ UNCHANGED <<pc, mr_result>>
    /\ UNCHANGED <<retry_attempts, operation, odds_format, result>>
    /\ UNCHANGED <<arbVars, convVars, mainVars>>

\* session.request raises Timeout.
RespTimeout == Except("timeout", Exc("Timeout", ""))

\* session.request raises another RequestException (connection error).
RespConnectionError == Except("connection", Exc("ConnectionError", ""))

\* A non-2xx status other than 429: raise_for_status raises HTTPError, a
\* RequestException, inside the try block.
RespHTTPError(status) == Except(status, Exc("HTTPError", status))

\* range(retry_attempts) is exhausted: the raise after the loop.
LoopExhausted ==
    /\ pc = "request"
    /\ attempt >= retry_attempts
    /\ mr_result' = Raised(Exc("RequestException", ""))
    /\ pc' = "finish"
    /\ UNCHANGED <<retry_attempts, operation, odds_format, attempt, response, log, result>>
    /\ UNCHANGED <<arbVars, convVars, mainVars>>

\* One iteration of the for loop of _make_request, or the raise after it.
MakeRequestStep ==
    \/ \E payload \in Payloads(operation, odds_format) : RespSuccess(payload)
    \/ Resp429
    \/ RespTimeout
    \/ RespConnectionError
    \/ \E status \in ErrorStatuses : RespHTTPError(status)
    \/ LoopExhausted

(***************************************************************************)
(* api/odds_api.py: what each operation does with the outcome of           *)
(* _make_request.                                                          *)
(***************************************************************************)
KeyError == Exc("KeyError", "")

\* get_sports returns the payload as it is; an exception propagates.
GetSportsFinish ==
    /\ pc = "finish"
    /\ operation = "get_sports"
    /\ result' = IF mr_result.kind = "return"
                 THEN ReturnedValue(mr_result.payload.items)
                 ELSE Raised(mr_result.exc)
    /\ pc' = "done"
    /\ UNCHANGED <<retry_attempts, operation, odds_format, attempt, response, log, mr_result>>
    /\ UNCHANGED <<arbVars, convVars, mainVars>>

\* get_odds parses every event of the response; an exception of
\* _make_request or of _parse_event propagates to the caller.
GetOddsFinish ==
    /\ pc = "finish"
    /\ operation = "get_odds"
    /\ result' =
         IF mr_result.kind = "raise" THEN Raised(mr_result.exc)
         ELSE LET event_data == mr_result.payload.items IN
              IF \A i \in DOMAIN event_data : EventOK(event_data[i])
              THEN ReturnedValue([i \in DOMAIN event_data |-> _parse_event(event_data[i])])
              ELSE Raised(KeyError)
    /\ pc' = "done"
    /\ UNCHANGED <<retry_attempts, operation, odds_format, attempt, response, log, mr_result>>
    /\ UNCHANGED <<arbVars, convVars, mainVars>>

\* get_event_odds: 'except Exception' around _make_request and _parse_event
\* turns every exception into None.
GetEventOddsFinish ==
    /\ pc = "finish"
    /\ operation = "get_event_odds"
    /\ result' =
         IF mr_result.kind = "raise" THEN ReturnedNone
         ELSE LET data == mr_result.payload.items[1] IN
              IF EventOK(data)
              THEN ReturnedValue(<<_parse_event(data)>>)
              ELSE ReturnedNone
    /\ pc' = "done"
    /\ UNCHANGED <<retry_attempts, operation, odds_format, attempt, response, log, mr_result>>
    /\ UNCHANGED <<arbVars, convVars, mainVars>>

ClientNext ==
    \/ \E op \in Operations, fmt \in OddsFormats : Call(op, fmt)
    \/ \E payload \in Payloads(operation, odds_format) : RespSuccess(payload)
    \/ Resp429
    \/ RespTimeout
    \/ RespConnectionError
    \/ \E status \in ErrorStatuses : RespHTTPError(status)
    \/ LoopExhausted
    \/ GetSportsFinish
    \/ GetOddsFinish
    \/ GetEventOddsFinish

(***************************************************************************)
(* Properties of the client.                                               *)
(***************************************************************************)
Requests == {i \in DOMAIN log : log[i].type = "request"}
Sleeps == {i \in DOMAIN log : log[i].type = "sleep"}
TransportFailures == {i \in Requests : log[i].status \in {"timeout", "connection"}}
StatusErrors == {i \in Requests : log[i].status \in ErrorStatuses}
RateLimits == {i \in Requests : log[i].status = "429"}
MakeRequestEnded == pc \in {"finish", "done"}

\* C1 (as claimed): 429 responses alone never make the call fail, and they
\* leave the budget of transport failures untouched: a call that fails on
\* transport failures has seen retry_attempts of them.
C1_RateLimitOutsideBudget ==
    /\ (MakeRequestEnded /\ mr_result.kind = "raise" /\ retry_attempts > 0)
          => (TransportFailures \cup StatusErrors) # {}
    /\ (MakeRequestEnded /\ mr_result.exc.type \in {"Timeout", "ConnectionError"}
            /\ StatusErrors = {})
          => Cardinality(TransportFailures) = retry_attempts

\* C2 (as claimed): a non-2xx status other than 429 ends the call at once:
\* the error is raised after that response, no sleep and no attempt follow.
C2_StatusErrorFailsAtOnce ==
    \A i \in StatusErrors :
        /\ i = Len(log)
        /\ mr_result = Raised(Exc("HTTPError", log[i].status))

\* C2 (amended): a non-2xx status other than 429 is handled like a transport
\* failure: on the last attempt (attempt = retry_attempts - 1) the HTTPError
\* is raised with no sleep; on an earlier attempt the client sleeps
\* 2 ** attempt and goes on to the next attempt.
C2_StatusErrorRetried ==
    \A i \in StatusErrors :
        IF log[i].attempt = retry_attempts - 1
        THEN /\ i = Len(log)
             /\ mr_result = Raised(Exc("HTTPError", log[i].status))
        ELSE /\ i < Len(log)
             /\ log[i + 1] = LogSleep(Pow2(log[i].attempt))
             /\ i + 1 = Len(log) =>
                   /\ pc = "request"
                   /\ attempt = log[i].attempt + 1
                   /\ attempt < retry_attempts
                   /\ mr_result = Pending

C2_Witness ==
    /\ Len(log) >= 3
    /\ log[1].status \in ErrorStatuses
    /\ log[3].type = "request"
    /\ log[Len(log)].status \in ErrorStatuses
    /\ mr_result.kind = "raise"

\* C3: when every attempt of a call ends in a timeout or another transport
\* error, the call makes exactly retry_attempts attempts, raises the last
\* attempt's exception, and nothing (no sleep, no attempt) follows the last
\* failed attempt.
C3_TransportFailuresExhaustBudget ==
    (MakeRequestEnded /\ Requests = TransportFailures) =>
        /\ Cardinality(Requests) = retry_attempts
        /\ Cardinality(Sleeps) = (IF retry_attempts = 0 THEN 0 ELSE retry_attempts - 1)
        /\ mr_result.kind = "raise"
        /\ IF Len(log) = 0
           THEN mr_result.exc.type = "RequestException"
           ELSE /\ log[Len(log)].type = "request"
                /\ log[Len(log)].attempt = retry_attempts - 1
                /\ mr_result.exc.type =
                      (IF log[Len(log)].status = "timeout" THEN "Timeout" ELSE "ConnectionError")

C3_Witness ==
    /\ pc = "done"
    /\ retry_attempts = DefaultRetryAttempts
    /\ Cardinality(Requests) = DefaultRetryAttempts
    /\ \A i \in Requests : log[i].status = "timeout"
    /\ result = Raised(Exc("Timeout", ""))

\* C4: a call whose first response is 429 and whose second response is a
\* success ends after exactly two attempts and one wait of 60, returning the
\* JSON payload of the success response as it is.
C4_OneRateLimitThenSuccess ==
    (/\ Len(log) >= 3
     /\ log[1].status = "429"
     /\ log[3].type = "request"
     /\ log[3].status = "2xx") =>
        /\ Len(log) = 3
        /\ log[2] = LogSleep(RateLimitWait)
        /\ Cardinality(Requests) = 2
        /\ MakeRequestEnded
        /\ response.status_code = "2xx"
        /\ mr_result = Returned(response.json)

C4_Witness ==
    /\ retry_attempts = DefaultRetryAttempts
    /\ Len(log) = 3
    /\ log[1].status = "429"
    /\ log[3].status = "2xx"
    /\ mr_result.kind = "return"
    /\ mr_result.payload.items # << >>

\* The number (1-based) of the HTTP attempt logged at position i.
AttemptNumber(i) == Cardinality({j \in Requests : j <= i})

\* C12: after the n-th attempt (1-based) of a call fails with a timeout or a
\* transport error and n < retry_attempts, the next thing the client does is
\* sleep exactly 2^(n-1); the sleep lies between the failed attempt and
\* attempt n+1, and attempt n+1 is the only thing that can follow it.  No
\* attempt follows a transport failure without that sleep in between.
C12_BackoffBetweenAttempts ==
    /\ \A i \in TransportFailures :
          LET n == AttemptNumber(i) IN
          n < retry_attempts =>
             /\ i < Len(log)
             /\ log[i + 1] = LogSleep(Pow2(n - 1))
             /\ i + 1 < Len(log) =>
                   /\ log[i + 2].type = "request"
                   /\ AttemptNumber(i + 2) = n + 1
             /\ i + 1 = Len(log) =>
                   /\ pc = "request"
                   /\ attempt = n
                   /\ mr_result = Pending
    /\ \A i \in Requests : (i - 1) \notin TransportFailures

C12_Witness ==
    /\ retry_attempts = DefaultRetryAttempts
    /\ Len(log) >= 5
    /\ log[1].status = "timeout"
    /\ log[2] = LogSleep(1)
    /\ log[3].status = "connection"
    /\ log[4] = LogSleep(2)
    /\ log[5].type = "request"

\* C15: every call of _make_request ends, with a returned payload or a raised
\* exception, after at most retry_attempts HTTP attempts, whatever the
\* upstream answers (429 at every attempt included); with retry_attempts = 0
\* it raises without any HTTP attempt.
C15_TerminatesWithinBudget ==
    /\ [](Cardinality(Requests) <= retry_attempts)
    /\ [](MakeRequestEnded => mr_result.kind \in {"return", "raise"})
    /\ []((MakeRequestEnded /\ retry_attempts = 0) =>
             /\ log = << >>
             /\ mr_result = Raised(Exc("RequestException", "")))
    /\ (pc = "request") ~> MakeRequestEnded

\* A call answered 429 at every attempt has ended.
C15_Witness ==
    /\ pc = "done"
    /\ retry_attempts = DefaultRetryAttempts
    /\ Cardinality(RateLimits) = DefaultRetryAttempts
    /\ Requests = RateLimits
    /\ mr_result = Raised(Exc("RequestException", ""))

\* C5 (as claimed): get_event_odds returns None only when the upstream
\* answered not-found; every other failure reaches the caller as an error.
C5_AbsentOnlyWhenNotFound ==
    (pc = "done" /\ operation = "get_event_odds") =>
        /\ result.isNone => mr_result.exc = Exc("HTTPError", "404")
        /\ (mr_result.kind = "raise" /\ mr_result.exc # Exc("HTTPError", "404"))
              => result.kind = "raise"

\* The outcomes of a wire event: (bookmaker, market, outcome) positions.
WireOutcomes(data) ==
    UNION { UNION { { <<b, m, o>> :
                        o \in DOMAIN Get(data.bookmakers[b].markets[m], "outcomes", << >>) } :
                    m \in DOMAIN Get(data.bookmakers[b], "markets", << >>) } :
            b \in DOMAIN Get(data, "bookmakers", << >>) }

\* The events an operation returned, each with the wire event it was parsed from.
OddsReturned ==
    /\ pc = "done"
    /\ operation \in {"get_odds", "get_event_odds"}
    /\ result.kind = "return"
    /\ ~result.isNone

\* C6 (as claimed): every Odds entry of every returned Event holds a decimal
\* price (>= 1.0), whichever oddsFormat was requested.
C6_PricesAreDecimal ==
    OddsReturned =>
        \A k \in DOMAIN result.value :
            \A j \in DOMAIN result.value[k].odds_data :
                RLe(RInt(1), result.value[k].odds_data[j].price)

\* C6 (amended): every Odds entry of every returned Event holds the price of
\* its wire outcome as received, with that outcome's bookmaker, market and
\* name, one entry per wire outcome: a decimal price (>= 1.0) when oddsFormat
\* 'decimal' was requested, the American value (magnitude >= 100), stored
\* verbatim, when 'american' was requested.
C6_PricesAreWirePrices ==
    OddsReturned =>
        \A k \in DOMAIN result.value :
            LET data == mr_result.payload.items[k]
                odds_data == result.value[k].odds_data
            IN  /\ Len(odds_data) = Cardinality(WireOutcomes(data))
                /\ \A w \in WireOutcomes(data) :
                      LET bookmaker_data == data.bookmakers[w[1]]
                          market == bookmaker_data.markets[w[2]]
                          outcome == market.outcomes[w[3]]
                      IN  \E j \in DOMAIN odds_data :
                             /\ odds_data[j].bookmaker = bookmaker_data.key
                             /\ odds_data[j].market = market.key
                             /\ odds_data[j].outcome = outcome.name
                             /\ odds_data[j].price = outcome.price
                /\ \A j \in DOMAIN odds_data :
                      IF odds_format = "decimal"
                      THEN RLe(RInt(1), odds_data[j].price)
                      ELSE RLe(RInt(100), RAbs(odds_data[j].price))

C6_Witness ==
    /\ OddsReturned
    /\ odds_format = "american"
    /\ \E k \in DOMAIN result.value :
          \E j \in DOMAIN result.value[k].odds_data :
              result.value[k].odds_data[j].price = <<-125, 1>>

(***************************************************************************)
(* analyzers/arbitrage.py: ArbitrageAnalyzer.                              *)
(***************************************************************************)
MaxOdds == 3                 \* Odds entries of one event
DefaultMinProfit == 2        \* arbitrage.py: min_profit_percentage: float = 2.0
DefaultMaxStake == 1000      \* arbitrage.py: max_stake: float = 1000

\* The configurations of the analyzer: (min_profit_percentage, max_stake).
AnalyzerConfigs == {<<DefaultMinProfit, DefaultMaxStake>>, <<5, 100>>}

OddsEntry(bookmaker, market, outcome, price, point) ==
    [bookmaker |-> bookmaker, market |-> market, outcome |-> outcome,
     price |-> price, point |-> point]

\* The Odds entries events are made of (decimal prices).
OddsEntries ==
    { OddsEntry("dk", "h2h", "Home", <<21, 10>>, None),
      OddsEntry("fd", "h2h", "Home", <<21, 10>>, None),
      OddsEntry("fd", "h2h", "Away", <<51, 25>>, None),
      OddsEntry("dk", "h2h", "Away", <<9, 5>>, None),
      OddsEntry("dk", "h2h", "Draw", <<21, 10>>, None),
      OddsEntry("dk", "totals", "Over", <<21, 10>>, Some(46)),
      OddsEntry("fd", "totals", "Under", <<21, 10>>, Some(45)) }

\* The ids of the events of the list given to find_arbitrage, in list order.
EventIds == <<"evA", "evB">>

NoEvent == [id |-> "", odds_data |-> << >>]

\* The position in the list of the event of this id (0: no event yet).
Position(id) ==
    IF id = "" THEN 0 ELSE CHOOSE k \in DOMAIN EventIds : EventIds[k] = id

\* [o for o in event.odds_data if o.market == market_type]
MarketOdds(ev, market_type) ==
    SelectSeq(ev.odds_data, LAMBDA o : o.market = market_type)

\* The keys of the dict _group_odds_by_outcome builds, in insertion order.
RECURSIVE GroupKeys(_, _)
GroupKeys(odds, keys) ==
    IF odds = << >> THEN keys
    ELSE GroupKeys(Tail(odds),
                   IF \E k \in DOMAIN keys : keys[k] = Head(odds).outcome
                   THEN keys
                   ELSE Append(keys, Head(odds).outcome))

\* The dict of _group_odds_by_outcome: its keys in insertion order, and the
\* list of each key, in the order of odds.
_group_odds_by_outcome(odds) ==
    LET keys == GroupKeys(odds, << >>)
    IN  [keys |-> keys,
         grouped |-> [k \in DOMAIN keys |->
                         SelectSeq(odds, LAMBDA o : o.outcome = keys[k])]]

\* max(xs, key=lambda x: x.price): the first entry of the greatest price.
RECURSIVE MaxByPriceFrom(_, _, _)
MaxByPriceFrom(xs, i, best) ==
    IF i > Len(xs) THEN best
    ELSE MaxByPriceFrom(xs, i + 1, IF RLt(best.price, xs[i].price) THEN xs[i] ELSE best)

\* The last entry of the greatest price instead of the first.
MaxByPriceLast(xs) ==
    LET top == CHOOSE i \in DOMAIN xs :
                 /\ \A j \in DOMAIN xs : RLe(xs[j].price, xs[i].price)
                 /\ \A j \in DOMAIN xs : j > i => RLt(xs[j].price, xs[i].price)
    IN  xs[top]

MaxByPrice(xs) == MaxByPriceFrom(xs, 2, xs[1])

\* The opportunity of lines 90-117, with the stakes not divided by the total
\* implied probability.
OpportunityUnnormalised(ev, market_type, best_odds_1, best_odds_2) ==
    LET implied_prob_1 == calculate_implied_probability(best_odds_1.price)
        implied_prob_2 == calculate_implied_probability(best_odds_2.price)
        total_implied_prob == RAdd(implied_prob_1, implied_prob_2)
        profit_percentage ==
            RMul(RSub(RDiv(RInt(1), total_implied_prob), RInt(1)), RInt(100))
        stake_1 == RMul(RInt(max_stake), implied_prob_1)
        stake_2 == RMul(RInt(max_stake), implied_prob_2)
        payout_1 == RMul(stake_1, best_odds_1.price)
        payout_2 == RMul(stake_2, best_odds_2.price)
    IN  IF RLt(total_implied_prob, RInt(1))
           /\ RLe(RInt(min_profit_percentage), profit_percentage)
        THEN << [event |-> ev.id,
                 bookmaker_1 |-> best_odds_1.bookmaker,
                 outcome_1 |-> best_odds_1.outcome,
                 odds_1 |-> best_odds_1.price,
                 bookmaker_2 |-> best_odds_2.bookmaker,
                 outcome_2 |-> best_odds_2.outcome,
                 odds_2 |-> best_odds_2.price,
                 profit_percentage |-> profit_percentage,
                 stake_1 |-> stake_1,
                 stake_2 |-> stake_2,
                 guaranteed_profit |-> RSub(RMin(payout_1, payout_2), RInt(max_stake)),
                 market_type |-> market_type] >>
        ELSE << >>

\* The opportunity of lines 90-117, without the test of the total implied
\* probability and of the threshold.
OpportunityUnchecked(ev, market_type, best_odds_1, best_odds_2) ==
    LET implied_prob_1 == calculate_implied_probability(best_odds_1.price)
        implied_prob_2 == calculate_implied_probability(best_odds_2.price)
        total_implied_prob == RAdd(implied_prob_1, implied_prob_2)
        profit_percentage ==
            RMul(RSub(RDiv(RInt(1), total_implied_prob), RInt(1)), RInt(100))
        stake_1 == RMul(RInt(max_stake), RDiv(implied_prob_1, total_implied_prob))
        stake_2 == RMul(RInt(max_stake), RDiv(implied_prob_2, total_implied_prob))
        payout_1 == RMul(stake_1, best_odds_1.price)
        payout_2 == RMul(stake_2, best_odds_2.price)
    IN  << [event |-> ev.id,
            bookmaker_1 |-> best_odds_1.bookmaker,
            outcome_1 |-> best_odds_1.outcome,
            odds_1 |-> best_odds_1.price,
            bookmaker_2 |-> best_odds_2.bookmaker,
            outcome_2 |-> best_odds_2.outcome,
            odds_2 |-> best_odds_2.price,
            profit_percentage |-> profit_percentage,
            stake_1 |-> stake_1,
            stake_2 |-> stake_2,
            guaranteed_profit |-> RSub(RMin(payout_1, payout_2), RInt(max_stake)),
            market_type |-> market_type] >>

\* Lines 84-117 of _check_two_way_market: the list of the opportunity the two
\* best prices give, empty when they give none.  (The timestamp field,
\* datetime.now(), is left out.)
Opportunity(ev, market_type, best_odds_1, best_odds_2) ==
    LET implied_prob_1 == calculate_implied_probability(best_odds_1.price)
        implied_prob_2 == calculate_implied_probability(best_odds_2.price)
        total_implied_prob == RAdd(implied_prob_1, implied_prob_2)
        profit_percentage ==
            RMul(RSub(RDiv(RInt(1), total_implied_prob), RInt(1)), RInt(100))
        stake_1 == RMul(RInt(max_stake), RDiv(implied_prob_1, total_implied_prob))
        stake_2 == RMul(RInt(max_stake), RDiv(implied_prob_2, total_implied_prob))
        payout_1 == RMul(stake_1, best_odds_1.price)
        payout_2 == RMul(stake_2, best_odds_2.price)
    IN  IF RLt(total_implied_prob, RInt(1))
           /\ RLe(RInt(min_profit_percentage), profit_percentage)
        THEN << [event |-> ev.id,
                 bookmaker_1 |-> best_odds_1.bookmaker,
                 outcome_1 |-> best_odds_1.outcome,
                 odds_1 |-> best_odds_1.price,
                 bookmaker_2 |-> best_odds_2.bookmaker,
                 outcome_2 |-> best_odds_2.outcome,
                 odds_2 |-> best_odds_2.price,
                 profit_percentage |-> profit_percentage,
                 stake_1 |-> stake_1,
                 stake_2 |-> stake_2,
                 guaranteed_profit |-> RSub(RMin(payout_1, payout_2), RInt(max_stake)),
                 market_type |-> market_type] >>
        ELSE << >>

\* _check_two_way_market with the test of the number of outcomes relaxed to
\* 'at least two'.
CheckAtLeastTwo(ev, market_type) ==
    LET market_odds == MarketOdds(ev, market_type)
        odds_by_outcome == _group_odds_by_outcome(market_odds)
    IN  IF market_odds = << >> THEN << >>
        ELSE IF Len(odds_by_outcome.keys) < 2 THEN << >>
        ELSE Opportunity(ev, market_type,
                         MaxByPrice(odds_by_outcome.grouped[1]),
                         MaxByPrice(odds_by_outcome.grouped[2]))

_check_two_way_market(ev, market_type) ==
    LET market_odds == MarketOdds(ev, market_type)
        odds_by_outcome == _group_odds_by_outcome(market_odds)
    IN  IF market_odds = << >> THEN << >>
        ELSE IF Len(odds_by_outcome.keys) # 2 THEN << >>
        ELSE Opportunity(ev, market_type,
                         MaxByPrice(odds_by_outcome.grouped[1]),
                         MaxByPrice(odds_by_outcome.grouped[2]))

ArbInit ==
    /\ \E cfg \in AnalyzerConfigs :
          /\ min_profit_percentage = cfg[1]
          /\ max_stake = cfg[2]
    /\ arb_pc = "idle"
    /\ event = NoEvent
    /\ opportunities = << >>

\* find_arbitrage is called: opportunities = [].
FindArbitrage ==
    /\ arb_pc \in {"idle", "returned"}
    /\ arb_pc' = "loop"
    /\ event' = NoEvent
    /\ opportunities' = << >>
    /\ UNCHANGED <<min_profit_percentage, max_stake>>
    /\ UNCHANGED <<clientVars, convVars, mainVars>>

\* 'for event in events' takes the next event of the list.  What the event
\* holds is settled entry by entry (AddOdds) before the loop body runs on it.
NextEvent ==
    /\ arb_pc = "loop"
    /\ Position(event.id) < Len(EventIds)
    /\ event' = [id |-> EventIds[Position(event.id) + 1], odds_data |-> << >>]
    /\ arb_pc' = "event"
    /\ UNCHANGED <<min_profit_percentage, max_stake, opportunities>>
    /\ UNCHANGED <<clientVars, convVars, mainVars>>

\* The event taken has one more Odds entry.
AddOdds(odds) ==
    /\ arb_pc = "event"
    /\ Len(event.odds_data) < MaxOdds
    /\ event' = [event EXCEPT !.odds_data = Append(@, odds)]
    /\ UNCHANGED <<min_profit_percentage, max_stake, arb_pc, opportunities>>
    /\ UNCHANGED <<clientVars, convVars, mainVars>>

\* The loop body: the h2h check, then the totals check, each extending
\* opportunities.
CheckEvent ==
    /\ arb_pc = "event"
    /\ opportunities' = opportunities
                            \o _check_two_way_market(event, "h2h")
                            \o _check_two_way_market(event, "totals")
    /\ arb_pc' = "loop"
    /\ UNCHANGED <<min_profit_percentage, max_stake, event>>
    /\ UNCHANGED <<clientVars, convVars, mainVars>>

\* The list is exhausted: return opportunities.
FindArbitrageReturn ==
    /\ arb_pc = "loop"
    /\ arb_pc' = "returned"
    /\ UNCHANGED <<min_profit_percentage, max_stake, event, opportunities>>
    /\ UNCHANGED <<clientVars, convVars, mainVars>>

ArbNext ==
    \/ FindArbitrage
    \/ NextEvent
    \/ \E odds \in OddsEntries : AddOdds(odds)
    \/ CheckEvent
    \/ FindArbitrageReturn

(***************************************************************************)
(* Properties of the analyzer.                                             *)
(***************************************************************************)
TwoWayMarkets == {"h2h", "totals"}

\* The loop body has run on event.
Checked == arb_pc \in {"loop", "returned"} /\ event # NoEvent

\* The opportunities the current event contributed, for one market type.
CurrentOpportunities(market_type) ==
    SelectSeq(opportunities,
              LAMBDA o : o.event = event.id /\ o.market_type = market_type)

Labels(ev, market_type) ==
    {ev.odds_data[i].outcome :
        i \in {j \in DOMAIN ev.odds_data : ev.odds_data[j].market = market_type}}

PricesOf(ev, market_type, label) ==
    {ev.odds_data[i].price :
        i \in {j \in DOMAIN ev.odds_data :
                  /\ ev.odds_data[j].market = market_type
                  /\ ev.odds_data[j].outcome = label}}

BestPrice(ev, market_type, label) ==
    CHOOSE p \in PricesOf(ev, market_type, label) :
        \A q \in PricesOf(ev, market_type, label) : RLe(q, p)

Inverse(x) == Rat(x[2], x[1])

\* For a market of exactly two labels: 1/price_1 + 1/price_2 of the best prices.
ImpliedSum(ev, market_type) ==
    LET a == CHOOSE l \in Labels(ev, market_type) : TRUE
        b == CHOOSE l \in Labels(ev, market_type) \ {a} : TRUE
    IN  RAdd(Inverse(BestPrice(ev, market_type, a)),
             Inverse(BestPrice(ev, market_type, b)))

\* sum < 1 and (1/sum - 1) * 100 >= min_profit_percentage, the latter as
\* 100 * (1 - sum) >= min_profit_percentage * sum.
Profitable(sum) ==
    /\ RLt(sum, RInt(1))
    /\ RLe(RMul(RInt(min_profit_percentage), sum),
           RMul(RInt(100), RSub(RInt(1), sum)))

\* C7: every opportunity has sum = 1/odds_1 + 1/odds_2 < 1,
\* profit_percentage = (1/sum - 1) * 100 (stated as
\* (profit_percentage + 100) * sum = 100) and profit_percentage >=
\* min_profit_percentage; and a market of two labels whose best prices give
\* sum >= 1 or a profit below the threshold yields no opportunity.
C7_ProfitOfOpportunities ==
    /\ \A i \in DOMAIN opportunities :
          LET o == opportunities[i]
              sum == RAdd(Inverse(o.odds_1), Inverse(o.odds_2))
          IN  /\ RLt(sum, RInt(1))
              /\ RMul(RAdd(o.profit_percentage, RInt(100)), sum) = RInt(100)
              /\ RLe(RInt(min_profit_percentage), o.profit_percentage)
    /\ Checked =>
          \A m \in TwoWayMarkets :
              (Cardinality(Labels(event, m)) = 2 /\ ~Profitable(ImpliedSum(event, m)))
                  => CurrentOpportunities(m) = << >>

C7_Witness ==
    /\ arb_pc = "returned"
    /\ event.id = "evB"
    /\ Cardinality(Labels(event, "h2h")) = 2
    /\ RLe(RInt(1), ImpliedSum(event, "h2h"))
    /\ Len(opportunities) = 1
    /\ opportunities[1].event = "evA"
    /\ opportunities[1].profit_percentage = RInt(min_profit_percentage)

C9_OnlyTwoLabelMarkets ==
    Checked =>
        \A m \in TwoWayMarkets :
            /\ Cardinality(Labels(event, m)) # 2 => CurrentOpportunities(m) = << >>
            /\ (Cardinality(Labels(event, m)) = 2 /\ Profitable(ImpliedSum(event, m)))
                  => Len(CurrentOpportunities(m)) = 1

C9_Witness ==
    /\ arb_pc = "returned"
    /\ event.id = "evB"
    /\ Labels(event, "h2h") = {"Home", "Away", "Draw"}
    /\ BestPrice(event, "h2h", "Home") = <<21, 10>>
    /\ BestPrice(event, "h2h", "Away") = <<51, 25>>
    /\ Len(opportunities) = 1
    /\ opportunities[1].event = "evA"
    /\ opportunities[1].market_type = "totals"

\* The positions in ev.odds_data of the entries of a market, label and price.
EntriesAt(ev, market_type, label, price) ==
    {j \in DOMAIN ev.odds_data :
        /\ ev.odds_data[j].market = market_type
        /\ ev.odds_data[j].outcome = label
        /\ ev.odds_data[j].price = price}

\* The two legs of an opportunity: label, price, bookmaker.
Legs(o) ==
    { [outcome |-> o.outcome_1, price |-> o.odds_1, bookmaker |-> o.bookmaker_1],
      [outcome |-> o.outcome_2, price |-> o.odds_2, bookmaker |-> o.bookmaker_2] }

\* C13: each leg of an opportunity carries the greatest price among the
\* event's entries of that market type and outcome label, and the bookmaker of
\* the first entry, in odds_data order, that has this price.
C13_BestPriceFirstBookmaker ==
    Checked =>
        \A m \in TwoWayMarkets :
            \A i \in DOMAIN CurrentOpportunities(m) :
                \A leg \in Legs(CurrentOpportunities(m)[i]) :
                    LET at == EntriesAt(event, m, leg.outcome, leg.price) IN
                    /\ leg.outcome \in Labels(event, m)
                    /\ leg.price = BestPrice(event, m, leg.outcome)
                    /\ at # {}
                    /\ \E first \in at :
                          /\ \A j \in at : first <= j
                          /\ leg.bookmaker = event.odds_data[first].bookmaker

\* An opportunity one leg of which had two bookmakers tied on the best price.
C13_Witness ==
    /\ Checked
    /\ Len(CurrentOpportunities("h2h")) = 1
    /\ \E leg \in Legs(CurrentOpportunities("h2h")[1]) :
          LET at == EntriesAt(event, "h2h", leg.outcome, leg.price) IN
          /\ Cardinality(at) = 2
          /\ \E j, k \in at :
                /\ j < k
                /\ event.odds_data[j].bookmaker # event.odds_data[k].bookmaker
                /\ leg.bookmaker = event.odds_data[j].bookmaker

\* The entry of ev.odds_data a leg was taken from: the first one of the leg's
\* label and price.
LegEntry(ev, market_type, leg) ==
    LET at == EntriesAt(ev, market_type, leg.outcome, leg.price)
    IN  ev.odds_data[CHOOSE first \in at : \A j \in at : first <= j]

\* C14 (as claimed): the two legs of an opportunity have distinct outcome
\* labels, the two labels are all the labels of the market evaluated, and the
\* two legs refer to the same point line (both without a point, or both at
\* the same point value).
C14_LegsSamePointLine ==
    Checked =>
        \A m \in TwoWayMarkets :
            \A i \in DOMAIN CurrentOpportunities(m) :
                LET o == CurrentOpportunities(m)[i] IN
                /\ o.outcome_1 # o.outcome_2
                /\ Labels(event, m) = {o.outcome_1, o.outcome_2}
                /\ \A leg1, leg2 \in Legs(o) :
                      LegEntry(event, m, leg1).point = LegEntry(event, m, leg2).point

(***************************************************************************)
(* models/bet.py: a chain of conversions starting from an American or a    *)
(* decimal value.                                                          *)
(***************************************************************************)
MaxAmerican == 60            \* American inputs are the multiples of 5 up to 5 * MaxAmerican
MaxConversions == 2          \* conversions in one chain

AmericanInputs == {5 * k : k \in (-MaxAmerican)..MaxAmerican} \ {0}
DecimalInputs == {Rat(k, 20) : k \in 21..(20 + MaxAmerican)}

OtherFormat(fmt) == IF fmt = "american" THEN "decimal" ELSE "american"

\* The notation odds_value is in.
CurrentFormat ==
    IF Len(conversions) % 2 = 0 THEN input_format ELSE OtherFormat(input_format)

ConvInit ==
    /\ input_format \in OddsFormats
    /\ odds_input \in (IF input_format = "american"
                       THEN {RInt(x) : x \in AmericanInputs}
                       ELSE DecimalInputs)
    /\ odds_value = odds_input
    /\ conversions = << >>

ToDecimal ==
    /\ CurrentFormat = "american"
    /\ Len(conversions) < MaxConversions
    /\ odds_value' = convert_american_to_decimal(odds_value)
    /\ conversions' = Append(conversions, "american_to_decimal")
    /\ UNCHANGED <<odds_input, input_format>>
    /\ UNCHANGED <<clientVars, arbVars, mainVars>>

ToAmerican ==
    /\ CurrentFormat = "decimal"
    /\ Len(conversions) < MaxConversions
    /\ odds_value' = convert_decimal_to_american(odds_value)
    /\ conversions' = Append(conversions, "decimal_to_american")
    /\ UNCHANGED <<odds_input, input_format>>
    /\ UNCHANGED <<clientVars, arbVars, mainVars>>

ConvNext == ToDecimal \/ ToAmerican

ConfiguredSport(pad, key) == [pad |-> pad, key |-> key]

\* sport.strip()
Strip(sport) == [sport EXCEPT !.pad = 0]

\* The values of config['sports'].
SportsLists ==
    { << ConfiguredSport(0, "nfl") >>,
      << ConfiguredSport(0, "nfl"), ConfiguredSport(1, "nba") >>,
      << ConfiguredSport(1, "nhl"), ConfiguredSport(0, "nba"), ConfiguredSport(0, "nfl") >> }

\* An event with a price of 0 on the wire.
WireEventZeroPrice ==
    [id |-> "evZ", sport_key |-> "nhl", commence_time |-> <<"iso", 13>>,
     home_team |-> "Home", away_team |-> "Away",
     bookmakers |-> <<
        [key |-> "dk", last_update |-> <<"iso", 9>>,
         markets |-> << [key |-> "h2h",
                         outcomes |-> << WireOutcome("decimal", "Home", <<21, 10>>),
                                         WireOutcome("decimal", "Away", <<0, 1>>) >>] >>] >>]

\* What the upstream can answer to the odds request of main (oddsFormat is
\* the default of get_odds, 'decimal').
MainPayloads ==
    {[shape |-> "array", items |-> s] :
        s \in SeqsUpTo(WireEvents("decimal") \cup {WireEventZeroPrice}, MaxPayloadEvents)}

\* How _make_request can end.
MakeRequestExceptions ==
    {Exc("Timeout", ""), Exc("ConnectionError", ""), Exc("RequestException", "")}
        \cup {Exc("HTTPError", status) : status \in ErrorStatuses}

MakeRequestOutcomes ==
    {Raised(exc) : exc \in MakeRequestExceptions}
        \cup {Returned(payload) : payload \in MainPayloads}

\* get_odds, given how its _make_request ended: the list of parsed events, or
\* the exception of _make_request or of _parse_event.
GetOddsResult(mr) ==
    IF mr.kind = "raise" THEN Raised(mr.exc)
    ELSE LET event_data == mr.payload.items IN
         IF \A i \in DOMAIN event_data : EventOK(event_data[i])
         THEN ReturnedValue([i \in DOMAIN event_data |-> _parse_event(event_data[i])])
         ELSE Raised(KeyError)

\* calculate_implied_probability divides by the best price of each of the two
\* outcomes: find_arbitrage raises ZeroDivisionError when one of them is 0.
CheckRaises(ev, market_type) ==
    LET market_odds == MarketOdds(ev, market_type)
        odds_by_outcome == _group_odds_by_outcome(market_odds)
    IN  /\ market_odds # << >>
        /\ Len(odds_by_outcome.keys) = 2
        /\ \/ MaxByPrice(odds_by_outcome.grouped[1]).price[1] = 0
           \/ MaxByPrice(odds_by_outcome.grouped[2]).price[1] = 0

FindArbitrageRaises(events) ==
    \E i \in DOMAIN events : \E m \in {"h2h", "totals"} : CheckRaises(events[i], m)

\* find_arbitrage(events), where it does not raise.
RECURSIVE find_arbitrage(_)
find_arbitrage(events) ==
    IF events = << >> THEN << >>
    ELSE _check_two_way_market(Head(events), "h2h")
            \o _check_two_way_market(Head(events), "totals")
            \o find_arbitrage(Tail(events))

Attempted(sport, outcome) == [sport |-> sport, outcome |-> outcome]

MainInit ==
    /\ sports \in SportsLists
    /\ main_pc = "connect"
    /\ sport_index = 0
    /\ attempted = << >>
    /\ all_opportunities = << >>

\* ArbitrageAnalyzer(min_profit_percentage=config['min_arbitrage_profit']):
\* max_stake is the default.
MainAnalyzerInit ==
    /\ min_profit_percentage \in {cfg[1] : cfg \in AnalyzerConfigs}
    /\ max_stake = DefaultMaxStake
    /\ arb_pc = "idle"
    /\ event = NoEvent
    /\ opportunities = << >>

\* client.get_sports() returns: all_opportunities = [], the loop starts.
ConnectOK ==
    /\ main_pc = "connect"
    /\ main_pc' = "loop"
    /\ all_opportunities' = << >>
    /\ UNCHANGED <<sports, sport_index, attempted>>
    /\ UNCHANGED <<clientVars, arbVars, convVars>>

\* client.get_sports() raises, outside the loop: 'except Exception' of main,
\* sys.exit(1).
ConnectFails(exc) ==
    /\ main_pc = "connect"
    /\ main_pc' = "fatal"
    /\ UNCHANGED <<sports, sport_index, attempted, all_opportunities>>
    /\ UNCHANGED <<clientVars, arbVars, convVars>>

\* 'for sport in config['sports']' has a next element.
AtSport == main_pc = "loop" /\ sport_index < Len(sports)

\* The exception the try block of the loop body ends with, given how
\* _make_request ended; NoException when it ends normally.
SportException(mr) ==
    LET events == GetOddsResult(mr) IN
    IF events.kind = "raise" THEN events.exc
    ELSE IF events.value # << >> /\ FindArbitrageRaises(events.value)
    THEN Exc("ZeroDivisionError", "")
    ELSE NoException

\* The loop body with an except clause that gives the run up.
SportRaisesAborts(mr) ==
    /\ AtSport
    /\ SportException(mr) # NoException
    /\ attempted' = Append(attempted, Attempted(Strip(sports[sport_index + 1]), "error"))
    /\ main_pc' = "fatal"
    /\ UNCHANGED <<sports, sport_index, all_opportunities>>
    /\ UNCHANGED <<clientVars, arbVars, convVars>>

\* The loop body when get_odds or find_arbitrage raises: 'except Exception'
\* logs the error and the loop goes on to the next sport.
SportRaises(mr) ==
    /\ AtSport
    /\ SportException(mr) # NoException
    /\ attempted' = Append(attempted, Attempted(Strip(sports[sport_index + 1]), "error"))
    /\ sport_index' = sport_index + 1
    /\ UNCHANGED <<sports, main_pc, all_opportunities>>
    /\ UNCHANGED <<clientVars, arbVars, convVars>>

\* The loop body when get_odds returns no event: continue.
SportNoEvents(mr) ==
    /\ AtSport
    /\ GetOddsResult(mr) = ReturnedValue(<< >>)
    /\ attempted' = Append(attempted, Attempted(Strip(sports[sport_index + 1]), "no events"))
    /\ sport_index' = sport_index + 1
    /\ UNCHANGED <<sports, main_pc, all_opportunities>>
    /\ UNCHANGED <<clientVars, arbVars, convVars>>

\* The loop body when get_odds returns events and find_arbitrage returns:
\* all_opportunities.extend(opportunities).
SportAnalysed(mr) ==
    /\ AtSport
    /\ SportException(mr) = NoException
    /\ GetOddsResult(mr).value # << >>
    /\ all_opportunities' = all_opportunities \o find_arbitrage(GetOddsResult(mr).value)
    /\ attempted' = Append(attempted, Attempted(Strip(sports[sport_index + 1]), "analysed"))
    /\ sport_index' = sport_index + 1
    /\ UNCHANGED <<sports, main_pc>>
    /\ UNCHANGED <<clientVars, arbVars, convVars>>

\* The list of sports is exhausted: the summary.
LoopDone ==
    /\ main_pc = "loop"
    /\ sport_index >= Len(sports)
    /\ main_pc' = "summary"
    /\ UNCHANGED <<sports, sport_index, attempted, all_opportunities>>
    /\ UNCHANGED <<clientVars, arbVars, convVars>>

MainNext ==
    \/ ConnectOK
    \/ \E exc \in MakeRequestExceptions : ConnectFails(exc)
    \/ \E mr \in MakeRequestOutcomes : SportRaises(mr)
    \/ \E mr \in MakeRequestOutcomes : SportNoEvents(mr)
    \/ \E mr \in MakeRequestOutcomes : SportAnalysed(mr)
    \/ LoopDone

(***************************************************************************)
(* Properties of main.                                                     *)
(***************************************************************************)
IsPrefix(xs, ys) == Len(xs) <= Len(ys) /\ SubSeq(ys, 1, Len(xs)) = xs

\* C11: a sport whose fetch or analysis fails does not end the run.  The
\* sports the loop body has run for are, in order, the first sports of the
\* configured list (stripped); the run is never given up once the loop has
\* started; no step takes anything out of all_opportunities; and once the
\* loop has started, the run reaches the summary with the loop body having
\* run for every configured sport.
C11_EverySportAttempted ==
    /\ [](/\ Len(attempted) <= Len(sports)
          /\ \A k \in DOMAIN attempted : attempted[k].sport = Strip(sports[k]))
    /\ [](main_pc = "fatal" => attempted = << >>)
    /\ [][IsPrefix(all_opportunities, all_opportunities')]_vars
    /\ (main_pc = "loop") ~> (main_pc = "summary" /\ Len(attempted) = Len(sports))

\* A run of three sports: the first gave opportunities, the second failed,
\* the third was analysed, and the first sport's opportunities are in the
\* summary.
C11_Witness ==
    /\ main_pc = "summary"
    /\ Len(sports) = 3
    /\ Len(attempted) = 3
    /\ attempted[1].outcome = "analysed"
    /\ attempted[2].outcome = "error"
    /\ attempted[3].outcome = "analysed"
    /\ all_opportunities # << >>
    /\ \A i \in DOMAIN all_opportunities : all_opportunities[i].event = "evA"

(***************************************************************************)
(* Specifications.                                                         *)
(***************************************************************************)
ClientIdle ==
    /\ retry_attempts = DefaultRetryAttempts
    /\ operation = "none"
    /\ odds_format = "decimal"
    /\ pc = "idle"
    /\ attempt = 0
    /\ response = NoResponse
    /\ log = << >>
    /\ mr_result = Pending
    /\ result = Pending

ArbIdle ==
    /\ min_profit_percentage = DefaultMinProfit
    /\ max_stake = DefaultMaxStake
    /\ arb_pc = "idle"
    /\ event = NoEvent
    /\ opportunities = << >>

ConvIdle ==
    /\ input_format = "decimal"
    /\ odds_input = RInt(2)
    /\ odds_value = RInt(2)
    /\ conversions = << >>

MainIdle ==
    /\ sports = << >>
    /\ main_pc = "idle"
    /\ sport_index = 0
    /\ attempted = << >>
    /\ all_opportunities = << >>

\* The client.
Init == ClientInit /\ ArbIdle /\ ConvIdle /\ MainIdle
Next == ClientNext
Spec == Init /\ [][Next]_vars

\* The client with the loop of _make_request going on: session.request returns
\* or raises within its timeout and time.sleep returns.
\* The calls are those of get_sports, which hands the outcome of _make_request
\* to its caller as it is.
InitLive == Init
NextLive ==
    \/ \E fmt \in OddsFormats : Call("get_sports", fmt)
    \/ MakeRequestStep
    \/ GetSportsFinish
SpecLive == InitLive /\ [][NextLive]_vars /\ WF_vars(MakeRequestStep)

\* The analyzer.
InitArb == ClientIdle /\ ArbInit /\ ConvIdle /\ MainIdle
NextArb == ArbNext
SpecArb == InitArb /\ [][NextArb]_vars

\* The conversion helpers.
InitConv == ClientIdle /\ ArbIdle /\ ConvInit /\ MainIdle
NextConv == ConvNext
SpecConv == InitConv /\ [][NextConv]_vars

\* One run of main: a sequential program, each step of which ends (get_odds
\* within the attempts of _make_request).
InitMain == ClientIdle /\ MainAnalyzerInit /\ ConvIdle /\ MainInit
NextMain == MainNext
SpecMain == InitMain /\ [][NextMain]_vars /\ WF_vars(NextMain)

====
